---- MODULE Spec2Model ----
(***************************************************************************)
(* Model of photostream.py: main runs organize_photos on each directory    *)
(* given on the command line; organize_photos deduplicates the *.jpg files *)
(* of the directory by SHA-256, parks each survivor under                  *)
(* "<sha256>.work.jpg" and then renames the survivors to 1.jpg .. N.jpg    *)
(* (zero padded) in timestamp order.                                       *)
(*                                                                         *)
(* A file name is a sequence of character codes (the ".jpg" suffix, which  *)
(* every modelled file has, is left implicit).  The codes keep the order   *)
(* of the characters: the digits '0'..'9' are 0..9, the letters 'a', 'b',  *)
(* ... are 10, 11, ... (so the hexadecimal digits are 0..15) and the '.'   *)
(* that starts the ".work" part of a name is -1, below every digit and     *)
(* letter.  A SHA-256 digest is the string of its leading hexadecimal      *)
(* digits.  A path is <<directory, name>>.  A file content is a number c;  *)
(* the EXIF record embedded in it is a function of c (CreateDate).         *)
(***************************************************************************)
EXTENDS Integers, Sequences, FiniteSets, TLC

\* ---- bounds of the model ------------------------------------------------
MaxContent == 4      \* distinct file contents 1..MaxContent
MaxSeqFiles == 11    \* working-set size explored by SpecSeq

\* ---- program constants --------------------------------------------------
Retry == 10          \* rmfile(filename, retry=10)

VARIABLES
    fs,          \* the file system: [existing paths -> content]
    args,        \* main: the directories named on the command line
    argi,        \* main: index of the directory being (or about to be) run
    unique,      \* main: -u
    randomize,   \* main: -r
    platform,    \* "posix" or "nt": decides os.rename onto an existing file
    pc,          \* "main", "dedup", "seq", "sequenced", "failed", "exit"
    exif,        \* organize_photos: read_exif's mapping, path -> CreateDate (0: none)
    todo,        \* organize_photos: keys of exif the loop has not reached yet
    filemap,     \* organize_photos: [sha256 -> [path, timestamp]]
    files,       \* organize_photos: paths sorted by timestamp
    n,           \* organize_photos: renames done by the sequencing loop
    fs0,         \* history: fs when the current run started
    ndel,        \* history: files removed by rmfile in the current run
    nren,        \* history: os.rename calls that succeeded in the current run
    clobbered,   \* history: contents replaced by an os.rename in the current run
    visited,     \* history: paths fingerprinted in the current run
    nvisit,      \* history: calc_sha256 calls in the current run
    outcome,     \* history: how the last read_exif call ended ("none" before any)
    err,         \* history: the exception that ended the run ("none" while it runs)
    rm           \* rmfile: the call in progress, as SpecRm follows it step by step

vars == <<fs, args, argi, unique, randomize, platform, pc, exif, todo, filemap,
          files, n, fs0, ndel, nren, clobbered, visited, nvisit,
          outcome, err, rm>>

\* ---- contents, digests, names --------------------------------------------
Contents == 1..MaxContent

\* The CreateDate field exiftool reports for content c; 0 stands for a record
\* without that field.  Contents 1 and 4 tie, content 3 has no date.
CreateDate(c) == c % 3

\* The hexdigest of content c, by its two leading characters: 53.., 97..,
\* ae.., 86.., ...  The digests are pairwise distinct and their string order
\* has nothing to do with c; some start with a digit and some with a letter.
Sha256Hex ==
    << <<5, 3>>, <<9, 7>>, <<10, 14>>, <<8, 6>>, <<14, 15>>, <<14, 7>>, <<7, 9>>,
       <<2, 12>>, <<1, 9>>, <<4, 10>>, <<4, 15>>, <<6, 11>>, <<3, 15>>, <<8, 5>>,
       <<14, 6>>, <<11, 1>> >>

\* calc_sha256: an injective digest of the content.
calc_sha256(c) == Sha256Hex[c]

\* the content with the digest sig
ContentOf(sig) == CHOOSE c \in DOMAIN Sha256Hex : Sha256Hex[c] = sig

\* the i-th name of the alphabet: a.jpg, b.jpg, ...
OrigName(i) == <<9 + i>>
\* the names the user gave the photos of a directory: a.jpg, b.jpg
OrigNames == {OrigName(1), OrigName(2)}

\* "%s.work.jpg" % signature
WorkName(sig) == Append(sig, -1)

IsWorkName(nm) == Len(nm) > 1 /\ nm[Len(nm)] = -1

Min2(a, b) == IF a < b THEN a ELSE b

\* floor(log10(n)) for n >= 1
RECURSIVE FloorLog10(_)
FloorLog10(k) == IF k < 10 THEN 0 ELSE 1 + FloorLog10(k \div 10)

\* a digit count that ignores its argument
numdigitsOneWide(k) == 1

numdigits(k) == IF k = 0 THEN 1 ELSE FloorLog10(k) + 1

RECURSIVE Digits(_)
Digits(k) == IF k < 10 THEN <<k>> ELSE Digits(k \div 10) \o <<k % 10>>

RECURSIVE ZeroPad(_, _)
ZeroPad(s, w) == IF Len(s) >= w THEN s ELSE ZeroPad(<<0>> \o s, w)

\* ("%0" + str(w) + "d.jpg") % k
FmtName(w, k) == ZeroPad(Digits(k), w)

\* string comparison of two names
LexLess(s, t) ==
    \/ \E k \in 1..Min2(Len(s), Len(t)) :
          /\ s[k] < t[k]
          /\ \A j \in 1..(k-1) : s[j] = t[j]
    \/ /\ Len(s) < Len(t)
       /\ \A j \in 1..Len(s) : s[j] = t[j]

\* ---- the file system ------------------------------------------------------
IsFile(f, p) == p \in DOMAIN f

Remove(f, p) == [q \in DOMAIN f \ {p} |-> f[q]]

\* os.rename(src, dst) when it succeeds
Rename(f, src, dst) ==
    [q \in (DOMAIN f \ {src}) \cup {dst} |-> IF q = dst THEN f[src] ELSE f[q]]

InDir(f, d) == {p \in DOMAIN f : p[1] = d}

ContentsIn(f, d) == {f[p] : p \in InDir(f, d)}

\* list_photos: the *.jpg files of the directory, sorted by name
RECURSIVE SortedPaths(_)
SortedPaths(S) ==
    IF S = {} THEN <<>>
    ELSE LET m == CHOOSE x \in S : \A y \in S \ {x} : LexLess(x[2], y[2])
         IN  <<m>> \o SortedPaths(S \ {m})

list_photos(f, d) == SortedPaths(InDir(f, d))

SeqRange(s) == {s[i] : i \in 1..Len(s)}

\* read_exif as it would be if a failed call reported every file with an empty
\* record instead of reporting none
read_exifEmptyRecords(f, filepaths, how, keys) ==
    [p \in (IF how = "ioerror" THEN SeqRange(filepaths) ELSE keys \cap SeqRange(filepaths))
        |-> IF how = "ioerror" THEN 0 ELSE CreateDate(f[p])]

\* read_exif: the records exiftool wrote, keyed by SourceFile.  how = "ok":
\* exiftool reported the files in keys; "ioerror": the except branch, {}.
read_exif(f, filepaths, how, keys) ==
    LET K == IF how = "ioerror" THEN {} ELSE keys \cap SeqRange(filepaths)
    IN  [p \in K |-> CreateDate(f[p])]

\* ---- rmfile -----------------------------------------------------------------
\* fails: how many of the coming attempts to chmod/remove the file raise.
\* On nt the error is a WindowsError and is retried; on posix it is an OSError,
\* and evaluating the except clause's WindowsError raises NameError at once.
RECURSIVE rmfile(_, _, _, _)
rmfile(exists, fails, retry, plat) ==
    IF ~exists THEN [removed |-> FALSE, raised |-> FALSE, attempts |-> 0]
    ELSE IF fails = 0 THEN [removed |-> TRUE, raised |-> FALSE, attempts |-> 1]
    ELSE IF plat = "nt" /\ retry > 0
         THEN LET r == rmfile(exists, fails - 1, retry - 1, plat)
              IN  [r EXCEPT !.attempts = @ + 1]
    ELSE [removed |-> FALSE, raised |-> TRUE, attempts |-> 1]

\* the sort with reverse=True
RECURSIVE SortedDescending(_, _)
SortedDescending(fm, S) ==
    IF S = {} THEN {<<>>}
    ELSE LET most == {x \in S : \A y \in S : fm[x].timestamp >= fm[y].timestamp}
         IN  UNION {{<<x>> \o t : t \in SortedDescending(fm, S \ {x})} : x \in most}

\* filemap.values() left unsorted, in the dict's own order
RECURSIVE Unsorted(_, _)
Unsorted(fm, S) ==
    IF S = {} THEN {<<>>}
    ELSE UNION {{<<x>> \o t : t \in Unsorted(fm, S \ {x})} : x \in S}

\* ---- sorted(filemap.values(), key=timestamp) -------------------------------
\* Every order of the digests that is ascending in timestamp: the sort is
\* stable over the dict's value order, which is arbitrary, so entries with
\* equal timestamps come out in any order.
RECURSIVE SortedByTimestamp(_, _)
SortedByTimestamp(fm, S) ==
    IF S = {} THEN {<<>>}
    ELSE LET least == {x \in S : \A y \in S : fm[x].timestamp <= fm[y].timestamp}
         IN  UNION {{<<x>> \o t : t \in SortedByTimestamp(fm, S \ {x})} : x \in least}

\* the dict kept from one call to the next
KeepFilemap(old) == old

\* line 115: filemap = {}
NewFilemap(old) == <<>>

\* the loop run over list_photos' result
LoopOverListing(filepaths, mapping) == SeqRange(filepaths)

\* line 116: the loop runs over the items of read_exif's mapping
LoopItems(filepaths, mapping) == DOMAIN mapping

\* line 118-120: is the file a duplicate to delete?  (unique is not consulted)
IsDuplicate(fm, sig, uniq) == sig \in DOMAIN fm

\* the duplicate left in place
KeepDuplicate(f, p, r) == f

\* lines 119-120: the file system after rmfile(filepath) ended as r
DeleteDuplicate(f, p, r) == IF r.removed THEN Remove(f, p) ELSE f

\* random.random(): one of a few keys, none drawn twice in a run (0 when the
\* key is not drawn at all, in sort mode)
RandomDraws(fm) ==
    IF randomize
    THEN (1..(Cardinality(OrigNames) + 1)) \ {fm[s].timestamp : s \in DOMAIN fm}
    ELSE {0}

\* ---- initial states -----------------------------------------------------------
\* A directory before the first run: any of the user's names may hold any
\* content, and at most one "<sha256>.work.jpg" left by an interrupted run holds
\* the content it is named after.
StaleFiles == {<<>>} \cup {WorkName(calc_sha256(c)) :> c : c \in Contents}

InitDirs ==
    {o @@ s : o \in UNION {[S -> Contents] : S \in SUBSET OrigNames}, s \in StaleFiles}

\* A further directory of the command line holds one file.
OtherDirs == {OrigName(1) :> c : c \in Contents}

\* Command lines, the directories numbered in order of first appearance: one
\* directory, the same directory twice, two directories.
ArgLists == {<<1>>, <<1, 1>>, <<1, 2>>}

FsOf(dd) ==
    [p \in {<<d, nm>> : d \in DOMAIN dd, nm \in UNION {DOMAIN dd[e] : e \in DOMAIN dd}}
           \cap {q \in (DOMAIN dd) \X UNION {DOMAIN dd[e] : e \in DOMAIN dd} :
                    q[2] \in DOMAIN dd[q[1]]}
       |-> dd[p[1]][p[2]]]

\* no rmfile call is being followed
NoCall == [pc |-> "idle"]

Locals0 ==
    /\ exif = <<>>
    /\ todo = {}
    /\ filemap = <<>>
    /\ files = <<>>
    /\ n = 0
    /\ ndel = 0
    /\ nren = 0
    /\ clobbered = FALSE
    /\ visited = {}
    /\ nvisit = 0
    /\ outcome = "none"
    /\ err = "none"
    /\ rm = NoCall

Init ==
    /\ args \in ArgLists
    /\ argi = 1
    /\ unique \in BOOLEAN
    /\ randomize \in BOOLEAN
    /\ platform \in {"posix", "nt"}
    /\ pc = "main"
    /\ \E dd \in [SeqRange(args) -> InitDirs \cup OtherDirs] :
          /\ dd[1] \in InitDirs
          /\ \A d \in DOMAIN dd \ {1} : dd[d] \in OtherDirs
          /\ fs = FsOf(dd)
    /\ fs0 = fs
    /\ Locals0

\* ---- main and organize_photos ---------------------------------------------------
\* main's loop calls organize_photos(path): filemap = {} (line 115), then
\* list_photos and read_exif (line 116).
\* read_exif catches IOError only; any other failure of the exiftool call
\* (OSError from Popen, ValueError from json.loads) ends the program.
MainCall ==
    /\ pc = "main"
    /\ argi <= Len(args)
    /\ LET filepaths == list_photos(fs, args[argi])
       IN  \E out \in {"ok", "ioerror", "raise"}, keys \in SUBSET SeqRange(filepaths) :
             /\ outcome' = out
             /\ err' = IF out = "raise" THEN "read_exif" ELSE "none"
             /\ IF out = "raise"
                THEN
                  /\ pc' = "failed"
                  /\ filemap' = NewFilemap(filemap)
                  /\ UNCHANGED <<exif, todo, files, n, fs0, ndel, nren,
                                 clobbered, visited, nvisit>>
                ELSE
                  /\ pc' = "dedup"
                  /\ exif' = read_exif(fs, filepaths, out, keys)
                  /\ todo' = LoopItems(filepaths, exif')
                  /\ filemap' = NewFilemap(filemap)
                  /\ files' = <<>>
                  /\ n' = 0
                  /\ fs0' = fs
                  /\ ndel' = 0
                  /\ nren' = 0
                  /\ clobbered' = FALSE
                  /\ visited' = {}
                  /\ nvisit' = 0
    /\ UNCHANGED <<fs, args, argi, unique, randomize, platform, rm>>

\* rmfile's exception caught and dropped by its caller
RmfileErrorIgnored(r) == FALSE

\* lines 120 and 125: rmfile is called outside any try, so an exception it
\* raises leaves organize_photos (and main) at once
RmfileAborts(r) == r.raised

\* a lookup with a default, props.get("CreateDate", 0)
HasCreateDateOrDefault(props) == TRUE

\* line 127: props["CreateDate"] raises KeyError when the record has no such field
HasCreateDate(props) == props # 0

\* One iteration of the loop of lines 116-128, for the item p.
Resolve(p) ==
    /\ pc = "dedup"
    /\ p \in todo
    /\ todo' = todo \ {p}
    /\ visited' = visited \cup {p}
    /\ nvisit' = nvisit + 1
    /\ \E fails \in 0..(Retry + 1), rnd \in RandomDraws(filemap) :
        IF ~IsFile(fs, p)
        THEN \* open() raises IOError
             /\ pc' = "failed"
             /\ err' = "open"
             /\ UNCHANGED <<fs, filemap, ndel, nren>>
        ELSE
        LET signature == calc_sha256(fs[p])
            tmp_filepath == <<args[argi], WorkName(signature)>>
        IN  IF IsDuplicate(filemap, signature, unique)
            THEN LET r == rmfile(IsFile(fs, p), fails, Retry, platform)
                 IN  /\ pc' = IF RmfileAborts(r) THEN "failed" ELSE "dedup"
                     /\ err' = IF r.raised THEN "rmfile" ELSE "none"
                     /\ fs' = DeleteDuplicate(fs, p, r)
                     /\ ndel' = IF r.removed THEN ndel + 1 ELSE ndel
                     /\ UNCHANGED <<filemap, nren>>
            ELSE LET move == p # tmp_filepath
                     stale == move /\ IsFile(fs, tmp_filepath)
                     r == rmfile(stale, fails, Retry, platform)
                     fs1 == IF r.removed THEN Remove(fs, tmp_filepath) ELSE fs
                     fs2 == IF move THEN Rename(fs1, p, tmp_filepath) ELSE fs1
                 IN  IF RmfileAborts(r)
                     THEN /\ pc' = "failed"
                          /\ err' = "rmfile"
                          /\ UNCHANGED <<fs, filemap, ndel, nren>>
                     ELSE /\ fs' = fs2
                          /\ ndel' = IF r.removed THEN ndel + 1 ELSE ndel
                          /\ nren' = IF move THEN nren + 1 ELSE nren
                          /\ IF ~randomize /\ ~HasCreateDate(exif[p])
                             THEN \* props["CreateDate"] raises KeyError
                                  /\ pc' = "failed"
                                  /\ err' = "KeyError"
                                  /\ UNCHANGED filemap
                             ELSE /\ pc' = "dedup"
                                  /\ err' = IF r.raised THEN "rmfile" ELSE "none"
                                  /\ filemap' =
                                       [s \in DOMAIN filemap \cup {signature} |->
                                          IF s = signature
                                          THEN [path |-> tmp_filepath,
                                                timestamp |-> IF randomize THEN rnd
                                                              ELSE exif[p]]
                                          ELSE filemap[s]]
    /\ UNCHANGED <<args, argi, unique, randomize, platform, exif, files, n, fs0,
                   clobbered, outcome, rm>>

Dedup == \E p \in todo : Resolve(p)

\* the sort started whether or not items are left
LoopDoneAnytime(left) == TRUE

\* line 116: the for loop ends when the iterator has no item left
LoopDone(left) == left = {}

\* lines 130-133: the loop is over; sort the working set.
Sort ==
    /\ pc = "dedup"
    /\ LoopDone(todo)
    /\ \E s \in SortedByTimestamp(filemap, DOMAIN filemap) :
          files' = [i \in 1..Len(s) |-> filemap[s[i]].path]
    /\ n' = 0
    /\ pc' = "seq"
    /\ UNCHANGED <<fs, args, argi, unique, randomize, platform, exif, todo, filemap,
                   fs0, ndel, nren, clobbered, visited, nvisit, outcome, err, rm>>

\* lines 135-137: one rename of the sequencing loop.  os.rename raises when the
\* source is gone; onto an existing file it replaces it on posix and raises on nt.
SeqRename ==
    /\ pc = "seq"
    /\ n < Len(files)
    /\ LET filepath == files[n + 1]
           new_filepath == <<filepath[1], FmtName(numdigits(Len(files)), n + 1)>>
       IN  IF ~IsFile(fs, filepath) \/ (IsFile(fs, new_filepath) /\ platform = "nt")
           THEN /\ pc' = "failed"
                /\ err' = "rename"
                /\ UNCHANGED <<fs, n, nren, clobbered>>
           ELSE /\ fs' = Rename(fs, filepath, new_filepath)
                /\ n' = n + 1
                /\ nren' = nren + 1
                /\ clobbered' = (clobbered \/ IsFile(fs, new_filepath))
                /\ pc' = "seq"
                /\ UNCHANGED err
    /\ UNCHANGED <<args, argi, unique, randomize, platform, exif, todo, filemap,
                   files, fs0, ndel, visited, nvisit, outcome, rm>>

\* the sequencing loop is over: organize_photos returns
SeqDone ==
    /\ pc = "seq"
    /\ n = Len(files)
    /\ pc' = "sequenced"
    /\ UNCHANGED <<fs, args, argi, unique, randomize, platform, exif, todo, filemap,
                   files, n, fs0, ndel, nren, clobbered, visited, nvisit, outcome, err, rm>>

\* organize_photos returns and main's loop moves on to the next directory.  The
\* locals of the call are gone (and the history of the run with them); the dict
\* is kept only for line 115 of the next call to replace.
Return ==
    /\ pc = "sequenced"
    /\ pc' = "main"
    /\ argi' = argi + 1
    /\ exif' = <<>>
    /\ todo' = {}
    /\ files' = <<>>
    /\ n' = 0
    /\ fs0' = fs
    /\ ndel' = 0
    /\ nren' = 0
    /\ clobbered' = FALSE
    /\ visited' = {}
    /\ nvisit' = 0
    /\ outcome' = "none"
    /\ UNCHANGED <<fs, args, unique, randomize, platform, filemap, err, rm>>

\* no directory is left: main returns
MainExit ==
    /\ pc = "main"
    /\ argi > Len(args)
    /\ pc' = "exit"
    /\ UNCHANGED <<fs, args, argi, unique, randomize, platform, exif, todo, filemap,
                   files, n, fs0, ndel, nren, clobbered, visited, nvisit, outcome, err, rm>>

Next == MainCall \/ Dedup \/ Sort \/ SeqRename \/ SeqDone \/ Return \/ MainExit

Spec == Init /\ [][Next]_vars

\* The interpreter runs the program on: every step of main and organize_photos
\* is a synchronous call that returns or raises (the only wait is rmfile's
\* sleep), so a step that can be taken is taken.
InitRun == Init /\ args = <<1>>

SpecRun == InitRun /\ [][Next]_vars /\ WF_vars(Next)

\* ---- the sequencer on larger working sets -------------------------------------
\* The state organize_photos is in when its loop ends in randomize mode on a
\* directory of k distinct photos a.jpg, b.jpg, ... that all had a metadata
\* entry, or of k such photos and one more that had none; the i-th photo
\* visited drew the i-th smallest key.
InitSeq ==
    /\ args = <<1>>
    /\ argi = 1
    /\ unique \in BOOLEAN
    /\ randomize = TRUE
    /\ platform \in {"posix", "nt"}
    /\ pc = "dedup"
    /\ \E k \in 0..MaxSeqFiles, extra \in 0..1 :
          /\ fs0 = [p \in {<<1, OrigName(c)>> : c \in 1..(k + extra)} |-> p[2][1] - 9]
          /\ exif = [p \in {<<1, OrigName(c)>> : c \in 1..k} |-> CreateDate(p[2][1] - 9)]
          /\ filemap = [s \in {calc_sha256(c) : c \in 1..k} |->
                          [path |-> <<1, WorkName(s)>>, timestamp |-> ContentOf(s)]]
          /\ fs = [p \in {<<1, WorkName(calc_sha256(c))>> : c \in 1..k}
                         \cup {<<1, OrigName(c)>> : c \in (k + 1)..(k + extra)}
                     |-> IF IsWorkName(p[2])
                         THEN ContentOf(SubSeq(p[2], 1, Len(p[2]) - 1))
                         ELSE p[2][1] - 9]
          /\ nren = k
          /\ nvisit = k
    /\ visited = DOMAIN exif
    /\ todo = {}
    /\ files = <<>>
    /\ n = 0
    /\ ndel = 0
    /\ clobbered = FALSE
    /\ outcome = "ok"
    /\ err = "none"
    /\ rm = NoCall

NextSeq == Sort \/ SeqRename \/ SeqDone \/ Return \/ MainExit

SpecSeq == InitSeq /\ [][NextSeq]_vars

\* ---- rmfile, one step at a time --------------------------------------------------
\* rmfile(filename, retry) followed through its recursion.  rm.retry is the
\* parameter of the innermost call, rm.attempts counts the os.remove calls and
\* rm.sleeps the time.sleep(1) calls made so far.
RmPath == <<1, OrigName(1)>>

\* the else branch returning instead of raising
AfterErrorGiveUpQuietly(retry, plat) ==
    IF plat = "posix" THEN "raised"
    ELSE IF retry # 0 THEN "try" ELSE "returned"

\* lines 55-60.  On posix the except clause names WindowsError, which does not
\* exist there: evaluating the clause raises NameError whatever was raised in
\* the try.  On nt: "if retry" sleeps and calls rmfile(filename, retry-1), whose
\* return ends this call too; "else: raise" re-raises.
AfterError(retry, plat) ==
    IF plat = "posix" THEN "raised"
    ELSE IF retry # 0 THEN "try" ELSE "raised"

InitRm ==
    /\ args = <<1>>
    /\ argi = 1
    /\ unique = FALSE
    /\ randomize = FALSE
    /\ platform \in {"posix", "nt"}
    /\ pc = "dedup"
    /\ fs \in {<<>>} \cup {RmPath :> c : c \in Contents}
    /\ fs0 = fs
    /\ exif = <<>>
    /\ todo = {}
    /\ filemap = <<>>
    /\ files = <<>>
    /\ n = 0
    /\ ndel = 0
    /\ nren = 0
    /\ clobbered = FALSE
    /\ visited = {}
    /\ nvisit = 0
    /\ outcome = "ok"
    /\ err = "none"
    /\ \E r \in 0..Retry :
          rm = [pc |-> "try", filename |-> RmPath, retry0 |-> r, retry |-> r,
                attempts |-> 0, sleeps |-> 0]

\* lines 49-54, the try block of the innermost call: a path that is no file
\* (and does not exist) is left alone and the call returns; a file is chmod-ed
\* and removed, which either succeeds, and the call returns, or raises.
RmTry ==
    /\ rm.pc = "try"
    /\ IF ~IsFile(fs, rm.filename)
       THEN /\ rm' = [rm EXCEPT !.pc = "returned"]
            /\ UNCHANGED <<fs, ndel>>
       ELSE \E ok \in BOOLEAN :
              IF ok
              THEN /\ fs' = Remove(fs, rm.filename)
                   /\ ndel' = ndel + 1
                   /\ rm' = [rm EXCEPT !.pc = "returned", !.attempts = @ + 1]
              ELSE /\ rm' = [rm EXCEPT !.pc = "except", !.attempts = @ + 1]
                   /\ UNCHANGED <<fs, ndel>>
    /\ UNCHANGED <<args, argi, unique, randomize, platform, pc, exif, todo, filemap,
                   files, n, fs0, nren, clobbered, visited, nvisit, outcome, err>>

\* lines 55-60, the except clause of the innermost call
RmExcept ==
    /\ rm.pc = "except"
    /\ LET to == AfterError(rm.retry, platform)
       IN  rm' = [rm EXCEPT !.pc = to,
                            !.retry = IF to = "try" THEN @ - 1 ELSE @,
                            !.sleeps = IF to = "try" THEN @ + 1 ELSE @]
    /\ UNCHANGED <<fs, args, argi, unique, randomize, platform, pc, exif, todo,
                   filemap, files, n, fs0, ndel, nren, clobbered, visited, nvisit,
                   outcome, err>>

NextRm == RmTry \/ RmExcept

\* the interpreter runs the call on: no step of rmfile waits for anything but
\* the one-second sleep
SpecRm == InitRm /\ [][NextRm]_vars /\ WF_vars(NextRm)

\* ---- vocabulary of the properties ------------------------------------------------
InRun == pc \in {"dedup", "seq", "sequenced"}

\* read_exif's mapping had an entry for every file list_photos returned
Covered == DOMAIN exif = InDir(fs0, args[argi])

Fingerprints(f, d) == {calc_sha256(c) : c \in ContentsIn(f, d)}

AllDigits(nm) == \A i \in 1..Len(nm) : nm[i] \in 0..9

RECURSIVE DecimalValue(_)
DecimalValue(nm) ==
    IF Len(nm) = 0 THEN 0
    ELSE 10 * DecimalValue(SubSeq(nm, 1, Len(nm) - 1)) + nm[Len(nm)]

\* the decimal digit count of k, 1 for k = 0
ExpectedWidth(k) == CHOOSE w \in 1..6 : k < 10^w /\ (w = 1 \/ k >= 10^(w - 1))

\* the directory holds exactly the names 1..N, N its file count, zero padded to
\* the digit count of N
NumberedDir(f, d) ==
    LET N == Cardinality(InDir(f, d))
    IN  /\ \A p \in InDir(f, d) :
              /\ AllDigits(p[2])
              /\ Len(p[2]) = ExpectedWidth(N)
              /\ DecimalValue(p[2]) \in 1..N
        /\ \A i \in 1..N : \E p \in InDir(f, d) : DecimalValue(p[2]) = i

\* ---- properties -------------------------------------------------------------------

\* C1 as stated: a run that completes leaves as many files in the directory as
\* there were distinct fingerprints in it at the start.
C1_AsStated ==
    pc = "sequenced" =>
        Cardinality(InDir(fs, args[argi])) = Cardinality(Fingerprints(fs0, args[argi]))

\* C1 (amended): a run that completes and whose metadata mapping had an entry
\* for every listed file leaves exactly one file per content present at the
\* start, so as many files as distinct fingerprints.
C1_FingerprintDedup ==
    (pc = "sequenced" /\ Covered) =>
        /\ Cardinality(InDir(fs, args[argi])) = Cardinality(Fingerprints(fs0, args[argi]))
        /\ \A c \in ContentsIn(fs0, args[argi]) :
              Cardinality({p \in InDir(fs, args[argi]) : fs[p] = c}) = 1

C1_Witness ==
    /\ pc = "sequenced"
    /\ Covered
    /\ ndel >= 1
    /\ Cardinality(InDir(fs0, args[argi])) = 3
    /\ \E p \in InDir(fs0, args[argi]) : IsWorkName(p[2])

\* C2: every content the directory held when the run started is still held by
\* a file of the directory, in every state of the run.
C2_NoDataLoss ==
    \A p \in DOMAIN fs0 : \E q \in DOMAIN fs : q[1] = p[1] /\ fs[q] = fs0[p]

\* C3 as stated: after a run that completes, the directory holds exactly the
\* names 1..N for its N files, zero padded to the digit count of N.
C3_AsStated == pc = "sequenced" => NumberedDir(fs, args[argi])

\* C3 (amended): after a run that completes and whose metadata mapping had an
\* entry for every listed file, the directory holds exactly the names 1..N for
\* its N files, zero padded to the digit count of N (so none under an original
\* or ".work" name).
C3_SequenceContiguity == (pc = "sequenced" /\ Covered) => NumberedDir(fs, args[argi])

C3_Witness ==
    /\ pc = "sequenced"
    /\ Covered
    /\ Cardinality(InDir(fs, args[argi])) >= 10
    /\ nren = 2 * Cardinality(InDir(fs, args[argi]))

\* C4: in sort mode, when the surviving files (the working set) have pairwise
\* distinct creation timestamps, after sequencing the file with the i-th
\* smallest timestamp is the one named i.
C4_OrderPreserved ==
    (/\ pc = "sequenced"
     /\ ~randomize
     /\ \A s, t \in DOMAIN filemap : s # t => filemap[s].timestamp # filemap[t].timestamp)
    => \A s \in DOMAIN filemap :
          LET rank == Cardinality({t \in DOMAIN filemap :
                                     filemap[t].timestamp <= filemap[s].timestamp})
          IN  \E q \in InDir(fs, args[argi]) :
                 /\ AllDigits(q[2])
                 /\ DecimalValue(q[2]) = rank
                 /\ calc_sha256(fs[q]) = s
                 /\ CreateDate(fs[q]) = filemap[s].timestamp

C4_Witness ==
    /\ pc = "sequenced"
    /\ ~randomize
    /\ Cardinality(DOMAIN filemap) = 2
    /\ \A s, t \in DOMAIN filemap : s # t => filemap[s].timestamp # filemap[t].timestamp
    /\ ndel >= 1

\* the run in progress is not the first one on its directory
Rerun == InRun /\ \E j \in 1..(argi - 1) : args[j] = args[argi]

\* the directory is as a run that covered every file leaves it when the
\* creation dates are pairwise distinct: names 1..N in ascending date order
DateOrdered(f, d) ==
    /\ NumberedDir(f, d)
    /\ \A p, q \in InDir(f, d) :
          DecimalValue(p[2]) < DecimalValue(q[2]) => CreateDate(f[p]) < CreateDate(f[q])

\* C5 as stated: a second run in sort mode on the result of a first completed
\* run ends with the same names and renames nothing.
C5_AsStated ==
    (Rerun /\ ~randomize) => (nren = 0 /\ (pc = "sequenced" => fs = fs0))

\* C5 (amended): a second run in sort mode on the directory a first completed
\* run left, when both runs had a metadata entry for every file and the
\* creation dates are pairwise distinct, ends with every content under the
\* name it had; the second run does rename: every file goes to its ".work"
\* name and back, two renames per file.
C5_RerunSameNames ==
    (/\ Rerun
     /\ pc = "sequenced"
     /\ ~randomize
     /\ Covered
     /\ DateOrdered(fs0, args[argi]))
    => /\ fs = fs0
       /\ nren = 2 * Cardinality(InDir(fs0, args[argi]))

C5_Witness ==
    /\ Rerun
    /\ pc = "sequenced"
    /\ ~randomize
    /\ Covered
    /\ DateOrdered(fs0, args[argi])
    /\ Cardinality(InDir(fs0, args[argi])) = 2
    /\ nren = 4

\* C6: without -u a run deletes no file.
C6_UniqueFlagControlsDeletion == ~unique => ndel = 0

\* C7: no os.rename of a run replaces an existing file.
C7_NoOverwrite == ~clobbered

\* C8 as stated: the files fingerprinted are those list_photos returned,
\* and they are visited in listing order.
C8_AsStated ==
    /\ [](pc \in {"seq", "sequenced"} => visited = InDir(fs0, args[argi]))
    /\ [][\A p \in todo \ todo' : \A q \in todo' : ~LexLess(q[2], p[2])]_vars

\* C8 (amended): the files fingerprinted are the keys of read_exif's mapping,
\* each once, in no particular order: a file visited is a key, a key is visited
\* or still ahead, and when the loop is over every key has been visited.  A
\* listed file that is not a key is never fingerprinted.
C8_ResolvesMappingKeys ==
    /\ visited \subseteq DOMAIN exif
    /\ todo \subseteq DOMAIN exif
    /\ todo \cap visited = {}
    /\ nvisit = Cardinality(visited)
    /\ (pc \in {"dedup", "seq", "sequenced"} => todo \cup visited = DOMAIN exif)
    /\ (pc \in {"seq", "sequenced"} => visited = DOMAIN exif)

C8_Witness ==
    /\ pc = "sequenced"
    /\ visited # {}
    /\ \E p \in InDir(fs0, args[argi]) : p \notin visited /\ IsFile(fs, p)

\* C9 as stated: when read_exif fails and yields an empty mapping, a run in
\* randomize mode still renames the listed files into 1..N.
C9_AsStated ==
    (outcome = "ioerror" /\ randomize /\ pc = "sequenced") =>
        /\ NumberedDir(fs, args[argi])
        /\ Cardinality(InDir(fs, args[argi])) = Cardinality(Fingerprints(fs0, args[argi]))

\* C9 (amended): when read_exif fails and yields an empty mapping the run, in
\* either mode, fingerprints, deletes and renames nothing, leaves the
\* directory as it was and does not fail.
C9_EmptyMappingLeavesDirectory ==
    outcome = "ioerror" =>
        /\ exif = <<>>
        /\ fs = fs0
        /\ nvisit = 0
        /\ nren = 0
        /\ ndel = 0
        /\ InRun

C9_Witness ==
    /\ outcome = "ioerror"
    /\ pc = "sequenced"
    /\ randomize
    /\ Cardinality(InDir(fs, args[argi])) >= 2

\* C10: every run starts with an empty working set, the working set only ever
\* names files of the directory being run, and a run leaves the files of the
\* other directories alone.
C10_IsolatedRuns ==
    /\ (pc = "dedup" /\ nvisit = 0) => filemap = <<>>
    /\ InRun => \A s \in DOMAIN filemap : filemap[s].path[1] = args[argi]
    /\ (InRun \/ pc = "failed") =>
          \A p \in DOMAIN fs \cup DOMAIN fs0 :
              p[1] # args[argi] => (p \in DOMAIN fs /\ p \in DOMAIN fs0 /\ fs[p] = fs0[p])

C10_Witness ==
    /\ pc = "sequenced"
    /\ argi = 2
    /\ args[2] # args[1]
    /\ \E p \in InDir(fs, args[1]), q \in InDir(fs, args[2]) :
          fs[p] = fs[q] /\ AllDigits(p[2]) /\ AllDigits(q[2])

\* a call of organize_photos has been made and has not returned to main's loop
Called == pc \in {"dedup", "seq", "sequenced", "failed"}

\* C11: a run on a directory that holds no *.jpg file ends without error,
\* having renamed and deleted nothing.
C11_EmptyDirectory ==
    (Called /\ InDir(fs0, args[argi]) = {}) =>
        /\ pc # "failed"
        /\ nren = 0
        /\ ndel = 0
        /\ fs = fs0

\* What does hold on a directory without *.jpg: once read_exif has returned,
\* the run fingerprints, renames and deletes nothing and does not fail.
EmptyDirectoryOnceReadExifReturned ==
    (Called /\ InDir(fs0, args[argi]) = {} /\ outcome \in {"ok", "ioerror"}) =>
        /\ pc # "failed"
        /\ nvisit = 0
        /\ nren = 0
        /\ ndel = 0
        /\ fs = fs0

RmEnded == rm.pc \in {"returned", "raised"}

\* C12: rmfile(filename, retry=r) removes at most r+1 times, with one sleep
\* between two attempts; it ends; when it returns the path does not exist;
\* when the path is still there after r+1 attempts it raises; on a path that
\* does not exist it returns without an attempt.
C12_BoundedRetryDelete ==
    /\ [](/\ rm.attempts <= rm.retry0 + 1
          /\ rm.sleeps = IF rm.attempts = 0 \/ rm.pc = "try" THEN rm.attempts
                         ELSE rm.attempts - 1
          /\ rm.pc = "returned" => ~IsFile(fs, rm.filename)
          /\ (RmEnded /\ rm.attempts = rm.retry0 + 1 /\ IsFile(fs, rm.filename))
                => rm.pc = "raised"
          /\ ~IsFile(fs0, rm.filename) =>
                (rm.attempts = 0 /\ rm.sleeps = 0 /\ rm.pc \in {"try", "returned"}))
    /\ <>RmEnded

C12_Witness ==
    /\ rm.pc = "raised"
    /\ platform = "nt"
    /\ rm.retry0 = Retry
    /\ rm.attempts = Retry + 1
    /\ rm.sleeps = Retry
    /\ IsFile(fs, rm.filename)

\* The call as the loop of organize_photos takes it in one step (rmfile above)
\* ends as the call followed step by step does.
RmfileAgrees ==
    RmEnded =>
        LET removed == IsFile(fs0, rm.filename) /\ ~IsFile(fs, rm.filename)
            failed == IF removed THEN rm.attempts - 1 ELSE rm.attempts
            r == rmfile(IsFile(fs0, rm.filename), failed, rm.retry0, platform)
        IN  /\ r.removed = removed
            /\ r.raised = (rm.pc = "raised")
            /\ r.attempts = rm.attempts

\* the item the loop takes in this step is p
Takes(p) == pc = "dedup" /\ p \in todo /\ p \notin todo'

\* the item p the loop takes is a file whose fingerprint is not in the working set
NonDuplicate(p) == IsFile(fs, p) /\ calc_sha256(fs[p]) \notin DOMAIN filemap

TempPath(p) == <<p[1], WorkName(calc_sha256(fs[p]))>>

\* C13: when rmfile raises while deleting a duplicate or a stale temporary
\* file the run has failed; the failing step changes no file and no entry of
\* the working set, and no step follows it: nothing more is fingerprinted,
\* deleted or renamed, and what earlier iterations did stays done.
C13_DeletionFailureFatal ==
    /\ [](err = "rmfile" => pc = "failed")
    /\ [][err' = "rmfile" =>
            /\ fs' = fs
            /\ filemap' = filemap
            /\ ndel' = ndel
            /\ nren' = nren
            /\ files' = <<>>
            /\ n' = 0]_vars
    /\ [][err # "rmfile"]_vars

C13_Witness ==
    /\ err = "rmfile"
    /\ pc = "failed"
    /\ todo # {}
    /\ nren >= 1
    /\ DOMAIN filemap # {}
    /\ fs # fs0

\* C14: in sort mode the step that takes a non-duplicate file without a
\* creation date ends the run in "failed" and enrols nothing; when the
\* KeyError is raised the file is already under its ".work" name, and the run
\* has named no file by a sequence number.  In randomize mode no KeyError is
\* raised.
C14_MissingCreateDate ==
    /\ [][\A p \in DOMAIN exif :
            (Takes(p) /\ ~randomize /\ NonDuplicate(p) /\ exif[p] = 0) =>
                /\ pc' = "failed"
                /\ filemap' = filemap
                /\ err' = "KeyError" =>
                      /\ IsFile(fs', TempPath(p))
                      /\ fs'[TempPath(p)] = fs[p]
                      /\ (p # TempPath(p) => ~IsFile(fs', p))]_vars
    /\ [](err = "KeyError" =>
            /\ pc = "failed"
            /\ ~randomize
            /\ n = 0
            /\ \A q \in InDir(fs, args[argi]) :
                  AllDigits(q[2]) => (q \in DOMAIN fs0 /\ fs0[q] = fs[q]))
    /\ [](randomize => err # "KeyError")

C14_Witness ==
    /\ err = "KeyError"
    /\ nren >= 2
    /\ DOMAIN filemap # {}
    /\ \E c \in Contents :
          /\ CreateDate(c) = 0
          /\ calc_sha256(c) \notin DOMAIN filemap
          /\ IsFile(fs, <<args[argi], WorkName(calc_sha256(c))>>)
          /\ fs[<<args[argi], WorkName(calc_sha256(c))>>] = c
          /\ \E p \in visited : ~IsFile(fs, p) /\ fs0[p] = c

\* C15: a step that resolves a non-duplicate file while another path named
\* after its fingerprint exists deletes that stale file and moves the file
\* there (unless rmfile raises); a step that resolves a file already named
\* after its fingerprint deletes and renames nothing; and from enrolment until
\* the first sequencing rename the ".work" path of every enrolled fingerprint
\* exists and holds content with that fingerprint.
C15_StaleTempFile ==
    /\ [][\A p \in DOMAIN exif :
            (Takes(p) /\ NonDuplicate(p)) =>
                /\ (p # TempPath(p) /\ IsFile(fs, TempPath(p)) /\ err' # "rmfile") =>
                      /\ ndel' = ndel + 1
                      /\ nren' = nren + 1
                      /\ ~IsFile(fs', p)
                      /\ IsFile(fs', TempPath(p))
                      /\ fs'[TempPath(p)] = fs[p]
                /\ p = TempPath(p) => (fs' = fs /\ ndel' = ndel /\ nren' = nren)]_vars
    /\ []((pc = "dedup" \/ (pc = "seq" /\ n = 0)) =>
            \A s \in DOMAIN filemap :
                /\ IsFile(fs, <<args[argi], WorkName(s)>>)
                /\ calc_sha256(fs[<<args[argi], WorkName(s)>>]) = s)

\* C16: during the loop and when sequencing starts, the entries of the working
\* set have pairwise distinct paths and each path is an existing file whose
\* content has the entry's fingerprint; a step that takes a duplicate leaves
\* the working set as it is and every path it refers to in place.
C16_WorkingSetValid ==
    /\ []((pc = "dedup" \/ (pc = "seq" /\ n = 0)) =>
            /\ \A s, t \in DOMAIN filemap :
                  s # t => filemap[s].path # filemap[t].path
            /\ \A s \in DOMAIN filemap :
                  /\ IsFile(fs, filemap[s].path)
                  /\ calc_sha256(fs[filemap[s].path]) = s)
    /\ [][\A p \in DOMAIN exif :
            (Takes(p) /\ IsFile(fs, p) /\ calc_sha256(fs[p]) \in DOMAIN filemap) =>
                /\ filemap' = filemap
                /\ \A s \in DOMAIN filemap : IsFile(fs', filemap[s].path)]_vars

\* this step renames a file to a sequence name
NamesFinal == n' > n \/ \E q \in DOMAIN fs' \ DOMAIN fs : AllDigits(q[2])

\* C17: every call of organize_photos reaches "sequenced" or "failed", and a
\* step that renames a file to a sequence name is taken only when the loop has
\* taken every item: each has been fingerprinted and then deleted as a
\* duplicate or enrolled.
C17_TerminationAndPhaseOrder ==
    /\ (pc = "main" /\ argi <= Len(args)) ~> (pc \in {"sequenced", "failed"})
    /\ (pc \in {"dedup", "seq"}) ~> (pc \in {"sequenced", "failed"})
    /\ [][NamesFinal =>
            /\ todo = {}
            /\ visited = DOMAIN exif
            /\ pc = "seq"
            /\ \A p \in visited :
                  IsFile(fs0, p) /\ calc_sha256(fs0[p]) \in DOMAIN filemap]_vars

C17_Witness ==
    /\ pc = "sequenced"
    /\ nvisit = 3
    /\ ndel >= 1
    /\ n = 2

====
